---- MODULE Spec2Model ----
(***************************************************************************)
(* Model of the horror video assembler (src/horror-video-assembler/        *)
(* build_video.py): VideoAssembler.build() as a pipeline state machine,    *)
(* and the Ken Burns per-frame transform zoom_pan as a pure function; and  *)
(* of ResumeParser.parse_resume (src/backend/app/services/                 *)
(* resume_parser.py); and of the job-application backend: the ATS score   *)
(* (ResumeParser.calculate_ats_score) and the FastAPI routes over the      *)
(* Job, Resume and Application tables (src/backend/app/api/routes/).       *)
(*                                                                         *)
(* Times are whole seconds.  File-system and library outcomes (a file is   *)
(* missing, a decoder or the encoder raises) are chosen by the environment *)
(* at the moment the code consults them.                                   *)
(***************************************************************************)
EXTENDS Integers, Sequences, FiniteSets, TLC

VARIABLES
    pc,          \* position of build(): timeline, audio, mux, render, done
    scenes,      \* self.scenes: the scene list of the configuration
    video_clips, \* the clips of the scenes whose image resolved
    videoBuilt,  \* the CompositeVideoClip `video` exists
    videoDur,    \* video.duration
    audio_clips, \* audio_clips of _compose_audio, in append order
    audioBuilt,  \* `audio` is a CompositeAudioClip (not None)
    audioDur,    \* audio.duration
    muxed,       \* final_video carries an audio track
    stages,      \* history: the stages of build() entered so far
    failure,     \* history: the fatal event that ended the run, or "none"
    exitStatus,  \* process exit status once pc = "done"
    videoClosed, \* number of video.close() calls
    audioClosed, \* number of audio.close() calls
    outputFile,  \* what is at self.output_file: absent, partial, complete
    encodeCalls, \* number of write_videofile invocations
    loaded,      \* history: the assets whose load returned a clip
    kb,          \* one evaluation of zoom_pan: parameters and result
    rp,          \* one call of ResumeParser.parse_resume: arguments and outcome
    ats,         \* one call of calculate_ats_score: parsed_data and the score
    jobs,        \* the Job table, in id order
    resumes,     \* the Resume table
    applications,\* the Application table
    uploads,     \* the files in the upload directory
    resp,        \* history: the last request served and its response
    reqs         \* the create_application requests in flight

buildVars == <<pc, scenes, video_clips, videoBuilt, videoDur, audio_clips, audioBuilt,
               audioDur, muxed, stages, failure, exitStatus, videoClosed,
               audioClosed, outputFile, encodeCalls, loaded>>

vars == <<pc, scenes, video_clips, videoBuilt, videoDur, audio_clips, audioBuilt,
          audioDur, muxed, stages, failure, exitStatus, videoClosed,
          audioClosed, outputFile, encodeCalls, loaded, kb, rp, ats, jobs,
          resumes, applications, uploads, resp, reqs>>

apiVars == <<jobs, resumes, applications, uploads, resp, reqs>>

(* ---------------------------- bounds ---------------------------------- *)

MaxScenes == 2

MaxT == 3

MaxSfx == 1

MaxOffset == 1

MaxAudio == 3

MaxSfxLen == 1

MaxSfxEntries == 2

MaxPan == 3

MaxKbDur == 2

MaxChunks == 3

MaxSkills == 11

MaxExperience == 4

MaxEducation == 3

MaxUsers == 2

MaxJobs == 2

MaxApps == 2

MaxJobIds == 2

MaxReqs == 2

MaxClock == 1

MaxResumes == 2

MaxKeys == 2

MaxScraped == 2

MaxJobRows == 3

(* ---------------------------- helpers --------------------------------- *)

Max(a, b) == IF a >= b THEN a ELSE b

Min(a, b) == IF a <= b THEN a ELSE b

SeqsUpTo(S, n) == UNION {[1..k -> S] : k \in 0..n}

RECURSIVE SeqMax(_)
SeqMax(s) ==
    IF Len(s) = 1 THEN Head(s) ELSE Max(Head(s), SeqMax(Tail(s)))

RECURSIVE SeqSum(_)
SeqSum(s) == IF s = <<>> THEN 0 ELSE Head(s) + SeqSum(Tail(s))

(* ------------------------- configuration ------------------------------ *)

SfxEntries == [offset : (0 - MaxOffset)..MaxOffset]

SceneRecords ==
    {r \in [start : 0..MaxT, end : 0..MaxT, sfx : SeqsUpTo(SfxEntries, MaxSfx)] :
        r.start < r.end}

\* Scenes of one second each, with up to MaxSfxEntries effects.
SfxSceneRecords ==
    {[start |-> t, end |-> t + 1, sfx |-> x] :
        t \in 0..(MaxT - 1), x \in SeqsUpTo(SfxEntries, MaxSfxEntries)}

ImageOutcomes == {"ok", "missing", "error"}

AudioOutcomes(maxLen) ==
    {[status |-> "missing", len |-> 0], [status |-> "error", len |-> 0]}
        \cup {[status |-> "ok", len |-> n] : n \in 1..maxLen}

AmbienceOutcomes ==
    {[status |-> "disabled", len |-> 0]} \cup AudioOutcomes(MaxAudio)

NoKenBurns ==
    [zs |-> [n |-> 1, d |-> 1], ze |-> [n |-> 1, d |-> 1], px |-> 0,
     py |-> 0, w |-> 0, h |-> 0, d |-> 0,
     t |-> 0, pn |-> 0, pd |-> 1, new_w |-> 0, new_h |-> 0, crop_x |-> 0,
     crop_y |-> 0, sampled |-> FALSE]

(* ------------------- _load_and_prepare_image -------------------------- *)

\* As _load_and_prepare_image, had set_start(start_time) been left out.
_load_and_prepare_image_no_start(i, scene) ==
    LET duration == scene.end - scene.start
    IN  [scene |-> i, start |-> 0, duration |-> duration,
         end |-> 0 + duration]

\* As _load_and_prepare_image, had set_duration been given end_time.
_load_and_prepare_image_end_as_duration(i, scene) ==
    LET duration == scene.end
    IN  [scene |-> i, start |-> scene.start, duration |-> duration,
         end |-> scene.start + duration]

\* ImageClip(path).set_duration(end - start) ... .set_start(start_time):
\* the clip ends at start + duration.
_load_and_prepare_image(i, scene) ==
    LET duration == scene.end - scene.start
    IN  [scene |-> i, start |-> scene.start, duration |-> duration,
         end |-> scene.start + duration]

\* As LoadClips, had each clip been inserted at the front of video_clips.
RECURSIVE LoadClipsReversed(_, _, _)
LoadClipsReversed(ss, res, i) ==
    IF i > Len(ss) THEN <<>>
    ELSE LoadClipsReversed(ss, res, i + 1)
             \o (IF res[i] = "ok" THEN <<_load_and_prepare_image(i, ss[i])>>
                 ELSE <<>>)

\* The loop of _create_video_timeline: one clip per scene whose image
\* resolved, in scene order.
RECURSIVE LoadClips(_, _, _)
LoadClips(ss, res, i) ==
    IF i > Len(ss) THEN <<>>
    ELSE (IF res[i] = "ok" THEN <<_load_and_prepare_image(i, ss[i])>> ELSE <<>>)
             \o LoadClips(ss, res, i + 1)

\* As CompositeDuration, had the clips been concatenated one after another.
CompositeDurationConcatenated(cs) ==
    SeqSum([k \in 1..Len(cs) |-> cs[k].duration])

\* CompositeVideoClip(video_clips).duration: the latest end of its clips.
CompositeDuration(cs) == SeqMax([k \in 1..Len(cs) |-> cs[k].end])

\* The compositor's frame at time t: a clip plays on [start, end) ...
is_playing(c, t) == c.start <= t /\ t < c.end

playing_clips(cs, t) == {k \in 1..Len(cs) : is_playing(cs[k], t)}

\* ... the playing clips are drawn in list order, each at its own time
\* t - start, so the one listed last is on top (0: background only).
TopClip(cs, t) ==
    IF playing_clips(cs, t) = {} THEN 0
    ELSE CHOOSE k \in playing_clips(cs, t) :
             \A m \in playing_clips(cs, t) : m <= k

(* ----------------------- _create_video_timeline ----------------------- *)

\* As NoClipsExit, had the abort reported success.
NoClipsExitZero == 1 - 1

\* Line 203: sys.exit(1) when no scene produced a clip.
NoClipsExit == 1

_create_video_timeline ==
    /\ pc = "timeline"
    /\ \E res \in [1..Len(scenes) -> ImageOutcomes], raises \in BOOLEAN :
         LET cs == LoadClips(scenes, res, 1)
         IN  /\ video_clips' = cs
             /\ loaded' = [loaded EXCEPT
                               !.image = {i \in 1..Len(scenes) : res[i] = "ok"}]
             /\ IF cs = <<>>
                THEN \* "No valid video clips found!": sys.exit(1)
                     /\ raises = FALSE
                     /\ pc' = "done"
                     /\ exitStatus' = NoClipsExit
                     /\ UNCHANGED <<videoBuilt, videoDur, stages, failure>>
                ELSE IF raises
                THEN \* CompositeVideoClip(...) raises: nothing catches it
                     /\ pc' = "done"
                     /\ exitStatus' = 1
                     /\ failure' = "composite"
                     /\ UNCHANGED <<videoBuilt, videoDur, stages>>
                ELSE /\ pc' = "audio"
                     /\ videoBuilt' = TRUE
                     /\ videoDur' = CompositeDuration(cs)
                     /\ stages' = Append(stages, "visual")
                     /\ UNCHANGED <<failure, exitStatus>>
    /\ UNCHANGED <<scenes, audio_clips, audioBuilt, audioDur, muxed, videoClosed,
                   audioClosed, outputFile, encodeCalls, kb, rp, ats, apiVars>>

(* --------------------------- audio loaders ---------------------------- *)

\* The part of a concatenation of segments that plays within [0, d].
RECURSIVE TakeDur(_, _)
TakeDur(segs, d) ==
    IF d <= 0 \/ segs = <<>> THEN <<>>
    ELSE IF Head(segs) >= d THEN <<d>>
    ELSE <<Head(segs)>> \o TakeDur(Tail(segs), d - Head(segs))

\* _load_narration: the file as it is, at absolute start 0.
_load_narration(out) ==
    IF out.status = "ok"
    THEN <<[kind |-> "narration", start |-> 0, dur |-> out.len,
            src |-> out.len, segs |-> <<out.len>>, scene |-> 0, entry |-> 0]>>
    ELSE <<>>

\* ambience.loop(duration=video_duration): nloops copies, then set_duration.
AudioLoop(len, duration) ==
    LET nloops == (duration \div len) + 1
    IN  [dur |-> duration,
         segs |-> TakeDur([k \in 1..nloops |-> len], duration)]

\* ambience.subclip(0, video_duration)
Subclip(len, t_end) ==
    [dur |-> t_end - 0, segs |-> TakeDur(<<len>>, t_end)]

\* As FitAmbience, had the track been trimmed without the loop branch.
FitAmbienceTrimOnly(len, video_duration) == Subclip(len, video_duration)

\* Lines 327-333 of _compose_audio: loop when shorter, trim otherwise.
FitAmbience(len, video_duration) ==
    IF len < video_duration
    THEN AudioLoop(len, video_duration)
    ELSE Subclip(len, video_duration)

\* _load_ambience followed by the fit of _compose_audio.
_load_ambience(out, video_duration) ==
    IF out.status = "ok"
    THEN LET fit == FitAmbience(out.len, video_duration)
         IN  <<[kind |-> "ambience", start |-> 0, dur |-> fit.dur,
                src |-> out.len, segs |-> fit.segs, scene |-> 0, entry |-> 0]>>
    ELSE <<>>

\* The (scene, sfx entry) pairs of the configuration.
SfxSlots(ss) ==
    UNION {{<<i, j>> : j \in 1..Len(ss[i].sfx)} : i \in 1..Len(ss)}

\* As _load_scene_sfx, had the offset alone been taken as the absolute time.
RECURSIVE _load_scene_sfx_offset_only(_, _, _, _, _)
_load_scene_sfx_offset_only(scene, i, scene_start_time, out, j) ==
    IF j > Len(scene.sfx) THEN <<>>
    ELSE (IF out[<<i, j>>].status = "ok"
          THEN LET absolute_time == scene.sfx[j].offset
               IN  <<[kind |-> "sfx", start |-> absolute_time,
                      dur |-> out[<<i, j>>].len, src |-> out[<<i, j>>].len,
                      segs |-> <<out[<<i, j>>].len>>, scene |-> i,
                      entry |-> j]>>
          ELSE <<>>)
             \o _load_scene_sfx_offset_only(scene, i, scene_start_time, out,
                                            j + 1)

\* As _load_scene_sfx, had a file that does not load ended the loop.
RECURSIVE _load_scene_sfx_stop_at_missing(_, _, _, _, _)
_load_scene_sfx_stop_at_missing(scene, i, scene_start_time, out, j) ==
    IF j > Len(scene.sfx) \/ out[<<i, j>>].status # "ok" THEN <<>>
    ELSE LET absolute_time == scene_start_time + scene.sfx[j].offset
         IN  <<[kind |-> "sfx", start |-> absolute_time,
                dur |-> out[<<i, j>>].len, src |-> out[<<i, j>>].len,
                segs |-> <<out[<<i, j>>].len>>, scene |-> i, entry |-> j]>>
                 \o _load_scene_sfx_stop_at_missing(scene, i,
                                                    scene_start_time, out,
                                                    j + 1)

\* _load_scene_sfx: every entry whose file loads, at scene start + offset.
RECURSIVE _load_scene_sfx(_, _, _, _, _)
_load_scene_sfx(scene, i, scene_start_time, out, j) ==
    IF j > Len(scene.sfx) THEN <<>>
    ELSE (IF out[<<i, j>>].status = "ok"
          THEN LET absolute_time == scene_start_time + scene.sfx[j].offset
               IN  <<[kind |-> "sfx", start |-> absolute_time,
                      dur |-> out[<<i, j>>].len, src |-> out[<<i, j>>].len,
                      segs |-> <<out[<<i, j>>].len>>, scene |-> i,
                      entry |-> j]>>
          ELSE <<>>)
             \o _load_scene_sfx(scene, i, scene_start_time, out, j + 1)

\* Lines 337-340: the effects of every scene of self.scenes, in order.
\* The effects of the scenes that have a clip in the visual timeline only.
RECURSIVE LoadSfxOfVisibleScenes(_, _, _)
LoadSfxOfVisibleScenes(ss, out, i) ==
    IF i > Len(ss) THEN <<>>
    ELSE (IF \E k \in 1..Len(video_clips) : video_clips[k].scene = i
          THEN _load_scene_sfx(ss[i], i, ss[i].start, out, 1)
          ELSE <<>>)
             \o LoadSfxOfVisibleScenes(ss, out, i + 1)

RECURSIVE LoadAllSfx(_, _, _)
LoadAllSfx(ss, out, i) ==
    IF i > Len(ss) THEN <<>>
    ELSE _load_scene_sfx(ss[i], i, ss[i].start, out, 1)
             \o LoadAllSfx(ss, out, i + 1)

\* audio_clips as _compose_audio builds it.
AudioClips(ss, video_duration, narr, amb, sfxOut) ==
    _load_narration(narr) \o _load_ambience(amb, video_duration)
        \o LoadAllSfx(ss, sfxOut, 1)

\* CompositeAudioClip(audio_clips).duration: the latest end of its clips.
CompositeAudioDuration(ls) ==
    SeqMax([k \in 1..Len(ls) |-> ls[k].start + ls[k].dur])

(* --------------------------- _compose_audio --------------------------- *)

\* As AudioNone, had a build without any audio been treated as fatal.
AudioNoneFatal ==
    /\ pc' = "done"
    /\ exitStatus' = 1
    /\ UNCHANGED <<audio_clips, audioBuilt, audioDur, failure, stages>>

\* Lines 342-344: "No audio clips loaded!", return None; build() goes on.
AudioNone ==
    /\ pc' = "mux"
    /\ stages' = Append(stages, "audio")
    /\ UNCHANGED <<audio_clips, audioBuilt, audioDur, failure, exitStatus>>

\* loop, subclip or CompositeAudioClip raises: nothing in build() catches it.
AudioRaises ==
    /\ pc' = "done"
    /\ exitStatus' = 1
    /\ failure' = "audio"
    /\ UNCHANGED <<audio_clips, audioBuilt, audioDur, stages>>

\* Lines 346-350: final_audio = CompositeAudioClip(audio_clips).
AudioMixed(ls) ==
    /\ pc' = "mux"
    /\ audio_clips' = ls
    /\ audioBuilt' = TRUE
    /\ audioDur' = CompositeAudioDuration(ls)
    /\ stages' = Append(stages, "audio")
    /\ UNCHANGED <<failure, exitStatus>>

_compose_audio(video_duration) ==
    /\ pc = "audio"
    /\ \E narr \in AudioOutcomes(MaxAudio), amb \in AmbienceOutcomes,
          sfxOut \in [SfxSlots(scenes) -> AudioOutcomes(MaxSfxLen)],
          raises \in BOOLEAN :
         LET ls == AudioClips(scenes, video_duration, narr, amb, sfxOut)
         IN  /\ IF ls = <<>>
                THEN raises = FALSE /\ AudioNone
                ELSE IF raises THEN AudioRaises ELSE AudioMixed(ls)
             /\ loaded' = IF ls # <<>> /\ raises
                          THEN loaded
                          ELSE [loaded EXCEPT
                                   !.narration = (narr.status = "ok"),
                                   !.ambience = (amb.status = "ok"),
                                   !.sfx = {sl \in SfxSlots(scenes) :
                                               sfxOut[sl].status = "ok"}]
    /\ UNCHANGED <<scenes, video_clips, videoBuilt, videoDur, muxed, videoClosed,
                   audioClosed, outputFile, encodeCalls, kb, rp, ats, apiVars>>

(* ------------------------------ build --------------------------------- *)

\* As AttachAudio, had the audio been attached without waiting for
\* _compose_audio.
AttachAudioEarly ==
    /\ pc \in {"audio", "mux"}
    /\ muxed' = audioBuilt
    /\ stages' = Append(stages, "mux")
    /\ pc' = "render"
    /\ UNCHANGED <<scenes, video_clips, videoBuilt, videoDur, audio_clips, audioBuilt,
                   audioDur, failure, exitStatus, videoClosed, audioClosed,
                   outputFile, encodeCalls, loaded, kb, rp, ats, apiVars>>

\* Lines 364-368: final_video = video.set_audio(audio) if audio else video.
AttachAudio ==
    /\ pc = "mux"
    /\ muxed' = audioBuilt
    /\ stages' = Append(stages, "mux")
    /\ pc' = "render"
    /\ UNCHANGED <<scenes, video_clips, videoBuilt, videoDur, audio_clips, audioBuilt,
                   audioDur, failure, exitStatus, videoClosed, audioClosed,
                   outputFile, encodeCalls, loaded, kb, rp, ats, apiVars>>

\* As Cleanup, had the finally block closed the video only.
CleanupVideoOnly ==
    /\ videoClosed' = videoClosed + 1
    /\ UNCHANGED audioClosed

\* The finally block of build(): video.close(), and audio.close() if audio.
Cleanup ==
    /\ videoClosed' = videoClosed + 1
    /\ audioClosed' = IF audioBuilt THEN audioClosed + 1 ELSE audioClosed

\* Lines 370-405: os.makedirs, then write_videofile inside try/except/finally.
\* The encoder either completes the file or raises, having written nothing
\* or a part of it.
Render ==
    /\ pc = "render"
    /\ \E hasDir \in BOOLEAN,
          outcome \in {"mkdir_fails", "written", "fails_early", "fails_midway"} :
         /\ outcome = "mkdir_fails" => hasDir
         /\ IF outcome = "mkdir_fails"
            THEN \* os.makedirs raises before the try block is entered
                 /\ failure' = "makedirs"
                 /\ exitStatus' = 1
                 /\ UNCHANGED <<stages, encodeCalls, outputFile, videoClosed,
                                audioClosed>>
            ELSE /\ stages' = Append(stages, "encode")
                 /\ encodeCalls' = encodeCalls + 1
                 /\ outputFile' = CASE outcome = "written" -> "complete"
                                    [] outcome = "fails_early" -> outputFile
                                    [] outcome = "fails_midway" -> "partial"
                 /\ IF outcome = "written"
                    THEN UNCHANGED <<failure, exitStatus>>
                    ELSE \* except Exception: sys.exit(1)
                         /\ failure' = "encoder"
                         /\ exitStatus' = 1
                 /\ Cleanup
    /\ pc' = "done"
    /\ UNCHANGED <<scenes, video_clips, videoBuilt, videoDur, audio_clips, audioBuilt,
                   audioDur, muxed, loaded, kb, rp, ats,
                   apiVars>>

Build ==
    \/ _create_video_timeline
    \/ _compose_audio(videoDur)
    \/ AttachAudio
    \/ Render

NothingLoaded ==
    [image |-> {}, narration |-> FALSE, ambience |-> FALSE, sfx |-> {}]

\* The state build() starts from, whatever the scene list.
BuildStart ==
    /\ pc = "timeline"
    /\ video_clips = <<>>
    /\ videoBuilt = FALSE
    /\ videoDur = 0
    /\ audio_clips = <<>>
    /\ audioBuilt = FALSE
    /\ audioDur = 0
    /\ muxed = FALSE
    /\ stages = <<>>
    /\ failure = "none"
    /\ exitStatus = 0
    /\ videoClosed = 0
    /\ audioClosed = 0
    /\ outputFile = "absent"
    /\ encodeCalls = 0
    /\ loaded = NothingLoaded

BuildInit ==
    /\ BuildStart
    /\ \E n \in 0..MaxScenes : scenes \in [1..n -> SceneRecords]

\* As BuildInit, for scene lists of one-second scenes with up to
\* MaxSfxEntries effects in all, on one scene or spread over the scenes.
SfxInit ==
    /\ BuildStart
    /\ \E n \in 0..MaxScenes :
           scenes \in {ss \in [1..n -> SfxSceneRecords] :
                          Cardinality(SfxSlots(ss)) <= MaxSfxEntries}

(* ------------------ _create_ken_burns_effect.zoom_pan ----------------- *)

\* Zoom factors are exact fractions n/d; pans and frame sizes are pixels.
Zooms ==
    {[n |-> 1, d |-> 2], [n |-> 1, d |-> 1], [n |-> 6, d |-> 5],
     [n |-> 3, d |-> 2]}

Pans == {0 - MaxPan, 0, MaxPan}

FrameSizes == {[w |-> 4, h |-> 3], [w |-> 8, h |-> 6]}

\* Python's int(): truncation toward zero of a / b, for b > 0.
TruncDiv(a, b) == IF a >= 0 THEN a \div b ELSE 0 - ((0 - a) \div b)

\* As Clamp, had the lower bound been left out.
ClampNoLower(crop, hi) == Min(crop, hi)

\* Lines 126-127: max(0, min(crop, hi)).
Clamp(crop, hi) == Max(0, Min(crop, hi))

\* As Progress, had t been used without the division by the duration.
ProgressNoDivide(p, t) == [n |-> t, d |-> 1]

\* Line 101: progress = t / duration if duration > 0 else 0, as the
\* fraction n / d.
Progress(p, t) ==
    IF p.d > 0 THEN [n |-> t, d |-> p.d] ELSE [n |-> 0, d |-> 1]

\* As CurrentZoom, had the interpolation run from zoom_end to zoom_start.
CurrentZoomFromEnd(p, pr) ==
    [n |-> p.ze.n * p.zs.d * pr.d + (p.zs.n * p.ze.d - p.ze.n * p.zs.d) * pr.n,
     d |-> p.zs.d * p.ze.d * pr.d]

\* Line 102: current_zoom = zoom_start + (zoom_end - zoom_start) * progress,
\* as the fraction n / d.
CurrentZoom(p, pr) ==
    [n |-> p.zs.n * p.ze.d * pr.d + (p.ze.n * p.zs.d - p.zs.n * p.ze.d) * pr.n,
     d |-> p.zs.d * p.ze.d * pr.d]

\* zoom_pan at time t of a clip of duration p.d: the scaled size and the
\* crop origin, in exact arithmetic.  progress = pn / pd.
zoom_pan(p, t) ==
    LET progress == Progress(p, t)
        pn == progress.n
        pd == progress.d
        current_zoom == CurrentZoom(p, progress)
        zoomNum == current_zoom.n
        zoomDen == current_zoom.d
        new_w == TruncDiv(p.w * zoomNum, zoomDen)
        new_h == TruncDiv(p.h * zoomNum, zoomDen)
        \* int((new_w - w) / 2 + pan_x * progress)
        crop_x == TruncDiv((new_w - p.w) * pd + 2 * p.px * pn, 2 * pd)
        crop_y == TruncDiv((new_h - p.h) * pd + 2 * p.py * pn, 2 * pd)
    IN  [p EXCEPT !.t = t, !.pn = pn, !.pd = pd,
                  !.new_w = new_w, !.new_h = new_h,
                  !.crop_x = Clamp(crop_x, new_w - p.w),
                  !.crop_y = Clamp(crop_y, new_h - p.h),
                  !.sampled = TRUE]

\* The clip's transform evaluated for one frame, at a time within the clip.
SampleFrame ==
    /\ \E t \in 0..kb.d : kb' = zoom_pan(kb, t)
    /\ UNCHANGED <<buildVars, rp, ats, apiVars>>

KenBurnsInit ==
    \E zs \in Zooms, ze \in Zooms, px \in Pans, py \in Pans,
       size \in FrameSizes, d \in 0..MaxKbDur :
        kb = [zs |-> zs, ze |-> ze, px |-> px, py |-> py, w |-> size.w,
              h |-> size.h, d |-> d, t |-> 0, pn |-> 0, pd |-> 1,
              new_w |-> 0, new_h |-> 0, crop_x |-> 0, crop_y |-> 0,
              sampled |-> FALSE]

\* No build() in progress.
BuildIdle ==
    /\ pc = "idle"
    /\ scenes = <<>>
    /\ video_clips = <<>>
    /\ videoBuilt = FALSE
    /\ videoDur = 0
    /\ audio_clips = <<>>
    /\ audioBuilt = FALSE
    /\ audioDur = 0
    /\ muxed = FALSE
    /\ stages = <<>>
    /\ failure = "none"
    /\ exitStatus = 0
    /\ videoClosed = 0
    /\ audioClosed = 0
    /\ outputFile = "absent"
    /\ encodeCalls = 0
    /\ loaded = NothingLoaded

(* ---------------------- ResumeParser.parse_resume ------------------- *)
(* src/backend/app/services/resume_parser.py.  A file is absent, or holds  *)
(* pages (PDF) or paragraphs (DOCX) of text; a file the reader library     *)
(* cannot decode makes the extraction raise.                               *)

FileTypes == {"pdf", "PDF", "Pdf", "docx", "DOCX", "txt", "TXT", ""}

\* str.lower() on the file types above.
Lower(file_type) ==
    CASE file_type \in {"pdf", "PDF", "Pdf"} -> "pdf"
      [] file_type \in {"docx", "DOCX"} -> "docx"
      [] file_type \in {"txt", "TXT"} -> "txt"
      [] OTHER -> file_type

\* The text of one page or paragraph; "" is one without text.
Chunks == {"", "Jane Doe", "jane@x.io"}

Files ==
    [exists : BOOLEAN, readable : BOOLEAN, chunks : SeqsUpTo(Chunks, MaxChunks)]

\* The loops of _extract_text_from_pdf and _extract_text_from_docx: the
\* chunks that hold text, in order (each followed by a newline, the whole
\* then stripped).
RECURSIVE ExtractText(_)
ExtractText(chunks) ==
    IF chunks = <<>> THEN <<>>
    ELSE (IF Head(chunks) # "" THEN <<Head(chunks)>> ELSE <<>>)
             \o ExtractText(Tail(chunks))

NoParse ==
    [file_type |-> "", file |-> [exists |-> FALSE, readable |-> FALSE,
                                 chunks |-> <<>>],
     phase |-> "idle", error |-> "none", extractCalls |-> 0,
     raw_text |-> <<>>]

\* parse_resume dispatching on the file type before looking at the path:
\* the reader library is then the first to find the file missing.
parse_resume_type_first ==
    /\ rp.phase = "called"
    /\ rp' =
         IF Lower(rp.file_type) \in {"pdf", "docx"}
         THEN IF rp.file.exists /\ rp.file.readable
              THEN [rp EXCEPT !.phase = "returned",
                              !.extractCalls = rp.extractCalls + 1,
                              !.raw_text = ExtractText(rp.file.chunks)]
              ELSE [rp EXCEPT !.phase = "raised",
                              !.extractCalls = rp.extractCalls + 1,
                              !.error = IF Lower(rp.file_type) = "pdf"
                                        THEN "ValueError: Error reading PDF file"
                                        ELSE "ValueError: Error reading DOCX file"]
         ELSE [rp EXCEPT !.phase = "raised",
                         !.error = "ValueError: Unsupported file type"]
    /\ UNCHANGED <<buildVars, kb, ats, apiVars>>

\* parse_resume(file_path, file_type), lines 54-83.
parse_resume ==
    /\ rp.phase = "called"
    /\ rp' =
         IF ~rp.file.exists
         THEN \* line 70
              [rp EXCEPT !.phase = "raised", !.error = "FileNotFoundError"]
         ELSE IF Lower(rp.file_type) \in {"pdf", "docx"}
         THEN IF rp.file.readable
              THEN [rp EXCEPT !.phase = "returned",
                              !.extractCalls = rp.extractCalls + 1,
                              !.raw_text = ExtractText(rp.file.chunks)]
              ELSE \* lines 103-104, 124-125
                   [rp EXCEPT !.phase = "raised",
                              !.extractCalls = rp.extractCalls + 1,
                              !.error = IF Lower(rp.file_type) = "pdf"
                                        THEN "ValueError: Error reading PDF file"
                                        ELSE "ValueError: Error reading DOCX file"]
         ELSE \* line 78
              [rp EXCEPT !.phase = "raised",
                         !.error = "ValueError: Unsupported file type"]
    /\ UNCHANGED <<buildVars, kb, ats, apiVars>>

ParserInit ==
    \E file_type \in FileTypes, file \in Files :
        rp = [NoParse EXCEPT !.file_type = file_type, !.file = file,
                             !.phase = "called"]

(* ------------------- ResumeParser.calculate_ats_score ----------------- *)
(* src/backend/app/services/resume_parser.py, lines 443-479.  A contact   *)
(* field or the summary is present when its value is truthy; the lists     *)
(* count by their length.  Scores are kept in half points (score2 is twice *)
(* the score) because an education entry is worth 7.5.                     *)

ParsedData ==
    [name : BOOLEAN, email : BOOLEAN, phone : BOOLEAN, summary : BOOLEAN,
     skills : 0..MaxSkills, experience : 0..MaxExperience,
     education : 0..MaxEducation]

Points(present, half_points) == IF present THEN half_points ELSE 0

\* The score without the min() caps of lines 465, 469, 473 and 479.
calculate_ats_score_uncapped(parsed_data) ==
    Points(parsed_data.name, 20) + Points(parsed_data.email, 20)
        + Points(parsed_data.phone, 20)
        + parsed_data.skills * 4
        + parsed_data.experience * 16
        + parsed_data.education * 15
        + Points(parsed_data.summary, 20)

\* calculate_ats_score(parsed_data), in half points.
calculate_ats_score(parsed_data) ==
    Min(Points(parsed_data.name, 20) + Points(parsed_data.email, 20)
            + Points(parsed_data.phone, 20)
            + Min(parsed_data.skills * 4, 40)
            + Min(parsed_data.experience * 16, 50)
            + Min(parsed_data.education * 15, 30)
            + Points(parsed_data.summary, 20),
        200)

NoAts ==
    [parsed_data |-> [name |-> FALSE, email |-> FALSE, phone |-> FALSE,
                      summary |-> FALSE, skills |-> 0, experience |-> 0,
                      education |-> 0],
     phase |-> "idle", score2 |-> 0]

\* One call of calculate_ats_score on the parsed_data at hand.
ScoreResume ==
    /\ ats.phase = "called"
    /\ ats' = [ats EXCEPT !.phase = "returned",
                          !.score2 = calculate_ats_score(ats.parsed_data)]
    /\ UNCHANGED <<buildVars, kb, rp, apiVars>>

AtsInit ==
    \E parsed_data \in ParsedData :
        ats = [NoAts EXCEPT !.parsed_data = parsed_data, !.phase = "called"]

(* ----------------------- the backend's tables ------------------------- *)
(* src/backend/app/models/database.py.  A Job row is [key, remote,         *)
(* is_active], its id is its position and key stands for (url, title,      *)
(* company); a Resume row is [id, user_id, file_path, content, title]; an  *)
(* Application row is [id, user_id, job_id, resume_id, status].  No table  *)
(* has a uniqueness constraint besides its primary key.  A request handler *)
(* is one action unless stated otherwise; resp records the request and     *)
(* what it answered.                                                       *)

Users == 1..MaxUsers

\* The values the status column is documented to take (database.py line 88,
\* schemas.py line 110).
Statuses == {"applied", "viewed", "interview", "rejected", "offer"}

NoResponse ==
    [op |-> "none", user_id |-> 0, target |-> 0, code |-> 0, result |-> <<>>,
     created |-> 0, skipped |-> 0, errors |-> 0, total |-> 0]

Respond(op, user_id, target, code, result) ==
    [NoResponse EXCEPT !.op = op, !.user_id = user_id, !.target = target,
                       !.code = code, !.result = result]

\* The largest primary key in a table, 0 when it is empty.
LastId(rows) ==
    IF rows = {} THEN 0
    ELSE CHOOSE m \in {r.id : r \in rows} : \A r \in rows : r.id <= m

\* db.query(Job).filter(Job.id == job_id).first() finds a row.
JobFound(job_id) == job_id \in 1..Len(jobs)

\* The same query without the filter on the owner.
ResumeOfAnyUser(user_id, resume_id) == {r \in resumes : r.id = resume_id}

\* db.query(Resume).filter(Resume.id == resume_id, Resume.user_id == user_id)
ResumeOf(user_id, resume_id) ==
    {r \in resumes : r.id = resume_id /\ r.user_id = user_id}

\* db.query(Application).filter(Application.id == application_id,
\*                              Application.user_id == user_id)
ApplicationOf(user_id, application_id) ==
    {a \in applications : a.id = application_id /\ a.user_id = user_id}

\* The rows of (user_id, job_id) among the given rows.
ApplicationsFor(rows, user_id, job_id) ==
    {a \in rows : a.user_id = user_id /\ a.job_id = job_id}

\* What a query of a session sees of the Application table: the committed
\* rows.  The session is made with autoflush=False (utils/database.py line
\* 27), so the objects it has added and not yet committed are not flushed
\* before a query and are no part of its result.
QueryApplications(pending) == applications

Application(id, user_id, job_id, resume_id) ==
    [id |-> id, user_id |-> user_id, job_id |-> job_id,
     resume_id |-> resume_id, status |-> "applied"]

\* db.commit() of the Application objects added for the job ids in pending:
\* each gets the next primary key.
RECURSIVE CommitApplications(_, _, _, _)
CommitApplications(rows, user_id, resume_id, pending) ==
    IF pending = <<>> THEN rows
    ELSE CommitApplications(
             rows \cup {Application(LastId(rows) + 1, user_id, Head(pending),
                                    resume_id)},
             user_id, resume_id, Tail(pending))

(* -------------------------- create_application ------------------------ *)
(* applications.py lines 23-78.                                            *)

\* Lines 40-62: the job, resume and duplicate queries; the status the
\* request fails with, or 0 when all three pass.
create_application_checks(user_id, job_id, resume_id) ==
    IF ~JobFound(job_id) THEN 404
    ELSE IF ResumeOf(user_id, resume_id) = {} THEN 404
    ELSE IF ApplicationsFor(applications, user_id, job_id) # {} THEN 400
    ELSE 0

\* One request served without any other request in between.
create_application ==
    \E user_id \in Users, job_id \in 1..(MaxJobs + 1), resume_id \in Users :
        LET code == create_application_checks(user_id, job_id, resume_id) IN
        /\ code = 0 => Cardinality(applications) < MaxApps
        /\ applications' =
             IF code = 0
             THEN CommitApplications(applications, user_id, resume_id,
                                     <<job_id>>)
             ELSE applications
        /\ resp' = Respond("create_application", user_id, job_id,
                           IF code = 0 THEN 201 ELSE code,
                           IF code = 0 THEN <<LastId(applications) + 1>>
                           ELSE <<>>)
        /\ UNCHANGED <<buildVars, kb, rp, ats, jobs, resumes, uploads, reqs>>

(* ------------------------------ bulk_apply ---------------------------- *)
(* applications.py lines 348-416.  acc is [created, skipped, errors,       *)
(* pending]: the three counters and the job ids of the objects added to    *)
(* the session.                                                            *)

\* The loop of lines 379-407 when a duplicate is passed over without being
\* counted.
RECURSIVE BulkLoopSkipUncounted(_, _, _, _)
BulkLoopSkipUncounted(user_id, job_ids, i, acc) ==
    IF i > Len(job_ids) THEN acc
    ELSE BulkLoopSkipUncounted(user_id, job_ids, i + 1,
             IF ~JobFound(job_ids[i])
             THEN [acc EXCEPT !.errors = @ + 1]
             ELSE IF ApplicationsFor(QueryApplications(acc.pending), user_id,
                                     job_ids[i]) # {}
             THEN acc
             ELSE [acc EXCEPT !.pending = Append(@, job_ids[i]),
                              !.created = @ + 1])

\* The loop of lines 379-407 from position i on.
RECURSIVE BulkLoop(_, _, _, _)
BulkLoop(user_id, job_ids, i, acc) ==
    IF i > Len(job_ids) THEN acc
    ELSE BulkLoop(user_id, job_ids, i + 1,
             IF ~JobFound(job_ids[i])
             THEN \* lines 383-385
                  [acc EXCEPT !.errors = @ + 1]
             ELSE IF ApplicationsFor(QueryApplications(acc.pending), user_id,
                                     job_ids[i]) # {}
             THEN \* lines 392-394
                  [acc EXCEPT !.skipped = @ + 1]
             ELSE \* lines 396-404
                  [acc EXCEPT !.pending = Append(@, job_ids[i]),
                              !.created = @ + 1])

bulk_apply ==
    \E user_id \in Users, resume_id \in Users, n \in 0..MaxJobIds :
      \E job_ids \in [1..n -> 1..(MaxJobs + 1)] :
        LET acc == BulkLoop(user_id, job_ids, 1,
                            [created |-> 0, skipped |-> 0, errors |-> 0,
                             pending |-> <<>>])
        IN
        IF ResumeOf(user_id, resume_id) = {}
        THEN \* lines 368-373
             /\ resp' = [Respond("bulk_apply", user_id, resume_id, 404, <<>>)
                            EXCEPT !.total = Len(job_ids)]
             /\ UNCHANGED <<buildVars, kb, rp, ats, jobs, resumes,
                            applications, uploads, reqs>>
        ELSE /\ Cardinality(applications) + acc.created <= MaxApps
             /\ applications' = CommitApplications(applications, user_id,
                                                   resume_id, acc.pending)
             /\ resp' = [Respond("bulk_apply", user_id, resume_id, 200, <<>>)
                            EXCEPT !.created = acc.created,
                                   !.skipped = acc.skipped,
                                   !.errors = acc.errors,
                                   !.total = Len(job_ids)]
             /\ UNCHANGED <<buildVars, kb, rp, ats, jobs, resumes, uploads,
                            reqs>>

(* --------------------------- update_application ----------------------- *)
(* applications.py lines 139-176, schemas.py lines 108-114.  The status of *)
(* the payload is left out ("unset"), given as null ("None"), or a string; *)
(* a string outside the pattern fails validation before the handler runs.  *)

StatusPayloads == Statuses \cup {"unset", "None", "archived"}

\* model_dump(exclude_unset=True) and the setattr loop, lines 167-169, on
\* the status column: a field that was given is written, null included.
SetStatus(row, status) ==
    IF status = "unset" THEN row ELSE [row EXCEPT !.status = status]

update_application ==
    \E user_id \in Users, application_id \in 1..MaxApps,
       status \in StatusPayloads :
        LET found == ApplicationOf(user_id, application_id)
            valid == status \in Statuses \cup {"unset", "None"}
            updated == {SetStatus(a, status) : a \in found}
        IN
        /\ applications' =
             IF valid /\ found # {}
             THEN (applications \ found) \cup updated
             ELSE applications
        /\ resp' =
             IF ~valid
             THEN Respond("update_application", user_id, application_id, 422,
                          <<>>)
             ELSE IF found = {}
             THEN Respond("update_application", user_id, application_id, 404,
                          <<>>)
             ELSE IF \E a \in updated : a.status = "None"
             THEN \* ApplicationResponse.status is a str: the response of
                  \* the committed update fails validation
                  Respond("update_application", user_id, application_id, 500,
                          <<>>)
             ELSE Respond("update_application", user_id, application_id, 200,
                          <<application_id>>)
        /\ UNCHANGED <<buildVars, kb, rp, ats, jobs, resumes, uploads, reqs>>

(* ----------------- create_application, request by request ------------ *)
(* The handler is a plain def, which FastAPI runs on a worker thread, and  *)
(* get_db gives each request a session of its own: requests interleave at  *)
(* their database calls.  A request in reqs is at "checks" (before line    *)
(* 41), at "insert" (the queries of lines 41-62 passed, before line 74) or *)
(* "done".                                                                 *)

ReceiveCreate ==
    /\ Len(reqs) < MaxReqs
    /\ \E user_id \in Users, job_id \in 1..(MaxJobs + 1), resume_id \in Users :
          reqs' = Append(reqs, [user_id |-> user_id, job_id |-> job_id,
                                resume_id |-> resume_id, pc |-> "checks",
                                code |-> 0])
    /\ UNCHANGED <<buildVars, kb, rp, ats, jobs, resumes, applications,
                   uploads, resp>>

\* Lines 41-62 of request i.
CreateChecks(i) ==
    /\ reqs[i].pc = "checks"
    /\ LET code == create_application_checks(reqs[i].user_id, reqs[i].job_id,
                                             reqs[i].resume_id)
       IN reqs' = [reqs EXCEPT ![i].pc = IF code = 0 THEN "insert" ELSE "done",
                               ![i].code = code]
    /\ UNCHANGED <<buildVars, kb, rp, ats, jobs, resumes, applications,
                   uploads, resp>>

\* Lines 65-78 of request i.
CreateInsert(i) ==
    /\ reqs[i].pc = "insert"
    /\ applications' = CommitApplications(applications, reqs[i].user_id,
                                          reqs[i].resume_id, <<reqs[i].job_id>>)
    /\ reqs' = [reqs EXCEPT ![i].pc = "done", ![i].code = 201]
    /\ resp' = Respond("create_application", reqs[i].user_id, reqs[i].job_id,
                       201, <<LastId(applications) + 1>>)
    /\ UNCHANGED <<buildVars, kb, rp, ats, jobs, resumes, uploads>>

(* ------------------------- database contents -------------------------- *)

\* f"{user_id}_{timestamp}_{safe_filename}", resumes.py line 62.
FilePath(user_id, timestamp, filename) == <<user_id, timestamp, filename>>

\* An empty database and upload directory.
ApiIdle ==
    /\ jobs = <<>>
    /\ resumes = {}
    /\ applications = {}
    /\ uploads = {}
    /\ resp = NoResponse
    /\ reqs = <<>>

\* The jobs a scrape_jobs has stored.
SeededJobs ==
    [j \in 1..MaxJobs |-> [key |-> j, remote |-> (j = 1), is_active |-> TRUE]]

\* One resume uploaded by each user.
SeededResumes ==
    {[id |-> u, user_id |-> u, file_path |-> FilePath(u, 0, "cv.pdf"),
      content |-> "cv_a", title |-> "cv"] : u \in Users}

SeededUploads ==
    {[path |-> FilePath(u, 0, "cv.pdf"), content |-> "cv_a"] : u \in Users}

\* Jobs scraped and resumes uploaded, nothing applied for yet.
ApiSeeded ==
    /\ jobs = SeededJobs
    /\ resumes = SeededResumes
    /\ applications = {}
    /\ uploads = SeededUploads
    /\ resp = NoResponse
    /\ reqs = <<>>

\* Neither the assembler nor the parser is at work.
ToolsIdle == BuildIdle /\ kb = NoKenBurns /\ rp = NoParse /\ ats = NoAts

(* ----------------------------- upload_resume -------------------------- *)
(* resumes.py lines 26-113.  A file in the upload directory is [path,      *)
(* content]; the parser raises on the content "corrupt".  timestamp is the *)
(* wall clock in whole seconds (strftime("%Y%m%d_%H%M%S"), line 60): two   *)
(* requests served within one second read the same value.                 *)

FileNames == {"cv.pdf", "cv.docx", "cv.txt"}

Contents == {"cv_a", "cv_b", "corrupt"}

\* FileValidator.validate_resume_file accepts the extension.
AllowedExtension(filename) == filename \in {"cv.pdf", "cv.docx"}

\* open(file_path, "wb") and copyfileobj, lines 66-67: the file at path is
\* created or replaced.
WriteFile(files, path, content) ==
    {f \in files : f.path # path} \cup {[path |-> path, content |-> content]}

\* os.remove(file_path), line 77.
RemoveFile(files, path) == {f \in files : f.path # path}

\* The clock has not gone back since a stored file was named.
ClockAt(timestamp) == \A f \in uploads : f.path[2] <= timestamp

upload_resume ==
    \E user_id \in Users, filename \in FileNames, content \in Contents,
       timestamp \in 0..MaxClock :
        LET file_path == FilePath(user_id, timestamp, filename)
            written == WriteFile(uploads, file_path, content)
            id == LastId(resumes) + 1
        IN
        /\ ClockAt(timestamp)
        /\ IF ~AllowedExtension(filename)
           THEN \* line 56: the validator raises 400
                /\ resp' = Respond("upload_resume", user_id, 0, 400, <<>>)
                /\ UNCHANGED <<uploads, resumes>>
           ELSE IF content = "corrupt"
           THEN \* lines 74-81
                /\ uploads' = RemoveFile(written, file_path)
                /\ resp' = Respond("upload_resume", user_id, 0, 422, <<>>)
                /\ UNCHANGED resumes
           ELSE \* lines 91-108
                /\ Cardinality(resumes) < MaxResumes
                /\ uploads' = written
                /\ resumes' = resumes \cup
                      {[id |-> id, user_id |-> user_id, file_path |-> file_path,
                        content |-> content, title |-> "cv"]}
                /\ resp' = Respond("upload_resume", user_id, id, 201, <<id>>)
        /\ UNCHANGED <<buildVars, kb, rp, ats, jobs, applications, reqs>>

(* ------------------------------- the jobs ----------------------------- *)
(* jobs.py.  jobs_data is the list the scraper returned, each posting      *)
(* given by its key.                                                       *)

Keys == 1..MaxKeys

\* The smallest id of a row with the key among the committed rows, 0 when
\* there is none: the .first() of lines 70-74.
FirstWithKey(rows, key) ==
    IF \E j \in 1..Len(rows) : rows[j].key = key
    THEN CHOOSE j \in 1..Len(rows) :
             /\ rows[j].key = key
             /\ \A k \in 1..(j - 1) : rows[k].key # key
    ELSE 0

\* The loop of lines 59-101 and the commit of line 103: committed is the
\* table the queries see, rows the table with the session's changes.
RECURSIVE ScrapeLoop(_, _, _, _)
ScrapeLoop(committed, rows, jobs_data, i) ==
    IF i > Len(jobs_data) THEN rows
    ELSE LET existing == FirstWithKey(committed, jobs_data[i]) IN
         ScrapeLoop(committed,
             IF existing # 0
             THEN [rows EXCEPT ![existing].is_active = TRUE]
             ELSE Append(rows, [key |-> jobs_data[i],
                                remote |-> (jobs_data[i] = 1),
                                is_active |-> TRUE]),
             jobs_data, i + 1)

scrape_jobs ==
    \E n \in 1..MaxScraped :
      \E jobs_data \in [1..n -> Keys] :
        LET rows == ScrapeLoop(jobs, jobs, jobs_data, 1) IN
        /\ Len(rows) <= MaxJobRows
        /\ jobs' = rows
        /\ resp' = [Respond("scrape_jobs", 0, 0, 200, jobs_data)
                       EXCEPT !.created = Len(rows) - Len(jobs),
                              !.total = Len(jobs_data)]
        /\ UNCHANGED <<buildVars, kb, rp, ats, resumes, applications,
                       uploads, reqs>>

\* Lines 338-339: job.is_active = False.
SoftDelete(rows, job_id) == [rows EXCEPT ![job_id].is_active = FALSE]

\* delete_job(job_id), lines 322-341.
delete_job ==
    \E job_id \in 1..(MaxJobRows + 1) :
        /\ jobs' = IF JobFound(job_id) THEN SoftDelete(jobs, job_id) ELSE jobs
        /\ resp' = Respond("delete_job", 0, job_id,
                           IF JobFound(job_id) THEN 200 ELSE 404, <<>>)
        /\ UNCHANGED <<buildVars, kb, rp, ats, resumes, applications,
                       uploads, reqs>>

\* The ids of a query in result order: by descending scraped_date the
\* later rows come first; the other sort keys are not modelled and leave
\* the rows in id order.
RECURSIVE Ordered(_, _, _)
Ordered(ids, n, sort_by) ==
    IF n = 0 THEN <<>>
    ELSE IF sort_by = "scraped_date"
    THEN (IF n \in ids THEN <<n>> ELSE <<>>) \o Ordered(ids, n - 1, sort_by)
    ELSE Ordered(ids, n - 1, sort_by) \o (IF n \in ids THEN <<n>> ELSE <<>>)

\* query.offset(skip).limit(limit)
Page(ids, skip, limit) == SubSeq(ids, skip + 1, Min(Len(ids), skip + limit))

\* The rows get_jobs selects without the is_active filter of line 143.
SelectJobsAnyState(remote_only) ==
    {j \in 1..Len(jobs) : remote_only => jobs[j].remote}

\* Lines 143-152: active rows, remote ones only if asked for.
SelectJobs(remote_only) ==
    {j \in 1..Len(jobs) : jobs[j].is_active /\ (remote_only => jobs[j].remote)}

\* get_jobs(skip, limit, remote_only, sort_by), lines 116-167.
get_jobs ==
    \E skip \in 0..1, limit \in 1..MaxJobRows, remote_only \in BOOLEAN,
       sort_by \in {"match_score", "scraped_date"} :
        /\ resp' = Respond("get_jobs", 0, 0, 200,
                           Page(Ordered(SelectJobs(remote_only), Len(jobs),
                                        sort_by), skip, limit))
        /\ UNCHANGED <<buildVars, kb, rp, ats, jobs, resumes, applications,
                       uploads, reqs>>

(* ------------------- one resume, one application ---------------------- *)
(* resumes.py lines 142-314, applications.py lines 111-136 and 179-207.    *)

ResumeIds == 1..MaxResumes

\* get_resume(resume_id, user_id), lines 142-170.
get_resume ==
    \E user_id \in Users, resume_id \in ResumeIds :
        /\ resp' = IF ResumeOf(user_id, resume_id) = {}
                   THEN Respond("get_resume", user_id, resume_id, 404, <<>>)
                   ELSE Respond("get_resume", user_id, resume_id, 200,
                                <<resume_id>>)
        /\ UNCHANGED <<buildVars, kb, rp, ats, jobs, resumes, applications,
                       uploads, reqs>>

\* update_resume(resume_id, resume_update, user_id), lines 173-213; of the
\* fields of ResumeUpdate the title is modelled.
update_resume ==
    \E user_id \in Users, resume_id \in ResumeIds,
       title \in {"unset", "cv", "cv2"} :
        LET found == ResumeOf(user_id, resume_id) IN
        /\ resumes' =
             (resumes \ found) \cup
                 {IF title = "unset" THEN r ELSE [r EXCEPT !.title = title] :
                      r \in found}
        /\ resp' = IF found = {}
                   THEN Respond("update_resume", user_id, resume_id, 404, <<>>)
                   ELSE Respond("update_resume", user_id, resume_id, 200,
                                <<resume_id>>)
        /\ UNCHANGED <<buildVars, kb, rp, ats, jobs, applications, uploads,
                       reqs>>

\* delete_resume(resume_id, user_id), lines 216-260.  The file goes first
\* (lines 245-251).  Application.resume_id is NOT NULL and the relationship
\* has no delete cascade, so the commit of a resume that applications refer
\* to raises and the row stays.
delete_resume ==
    \E user_id \in Users, resume_id \in ResumeIds :
        LET found == ResumeOf(user_id, resume_id)
            referred == \E a \in applications : a.resume_id = resume_id
        IN
        /\ uploads' = {f \in uploads : \A r \in found : f.path # r.file_path}
        /\ resumes' = IF referred THEN resumes ELSE resumes \ found
        /\ resp' = IF found = {}
                   THEN Respond("delete_resume", user_id, resume_id, 404, <<>>)
                   ELSE IF referred
                   THEN Respond("delete_resume", user_id, resume_id, 500, <<>>)
                   ELSE Respond("delete_resume", user_id, resume_id, 200, <<>>)
        /\ UNCHANGED <<buildVars, kb, rp, ats, jobs, applications, reqs>>

\* reparse_resume(resume_id, user_id), lines 263-314.
reparse_resume ==
    \E user_id \in Users, resume_id \in ResumeIds :
        LET found == ResumeOf(user_id, resume_id)
            files == {f \in uploads : \E r \in found : f.path = r.file_path}
            parsed == \E f \in files : f.content # "corrupt"
        IN
        /\ resumes' =
             IF parsed
             THEN (resumes \ found) \cup
                      {[r EXCEPT !.content =
                            (CHOOSE f \in files : f.path = r.file_path).content]
                          : r \in found}
             ELSE resumes
        /\ resp' = IF found = {} \/ files = {}
                   THEN \* lines 291, 295
                        Respond("reparse_resume", user_id, resume_id, 404, <<>>)
                   ELSE IF ~parsed
                   THEN \* line 303
                        Respond("reparse_resume", user_id, resume_id, 422, <<>>)
                   ELSE Respond("reparse_resume", user_id, resume_id, 200,
                                <<resume_id>>)
        /\ UNCHANGED <<buildVars, kb, rp, ats, jobs, applications, uploads,
                       reqs>>

\* get_application(application_id, user_id), lines 111-136.
get_application ==
    \E user_id \in Users, application_id \in 1..MaxApps :
        /\ resp' = IF ApplicationOf(user_id, application_id) = {}
                   THEN Respond("get_application", user_id, application_id,
                                404, <<>>)
                   ELSE Respond("get_application", user_id, application_id,
                                200, <<application_id>>)
        /\ UNCHANGED <<buildVars, kb, rp, ats, jobs, resumes, applications,
                       uploads, reqs>>

\* delete_application(application_id, user_id), lines 179-207.
delete_application ==
    \E user_id \in Users, application_id \in 1..MaxApps :
        LET found == ApplicationOf(user_id, application_id) IN
        /\ applications' = applications \ found
        /\ resp' = IF found = {}
                   THEN Respond("delete_application", user_id, application_id,
                                404, <<>>)
                   ELSE Respond("delete_application", user_id, application_id,
                                200, <<>>)
        /\ UNCHANGED <<buildVars, kb, rp, ats, jobs, resumes, uploads, reqs>>

\* A database two users have worked with: each has uploaded one resume,
\* whose file is still there with some content or has been removed, and
\* one of them has applied for job 1 with it.
ApiShared ==
    /\ jobs = SeededJobs
    /\ resumes = SeededResumes
    /\ \E u \in Users : applications = {Application(1, u, 1, u)}
    /\ \E content \in [Users -> {"cv_b", "corrupt", "removed"}] :
          uploads = {[path |-> FilePath(u, 0, "cv.pdf"), content |-> content[u]]
                        : u \in {v \in Users : content[v] # "removed"}}
    /\ resp = NoResponse
    /\ reqs = <<>>


(* --------------------------- specifications --------------------------- *)

Init == BuildInit /\ kb = NoKenBurns /\ rp = NoParse /\ ats = NoAts /\ ApiIdle

Next == Build

Spec == Init /\ [][Next]_vars

InitSfx == SfxInit /\ kb = NoKenBurns /\ rp = NoParse /\ ats = NoAts /\ ApiIdle

SpecSfx == InitSfx /\ [][Next]_vars

InitKenBurns ==
    BuildIdle /\ KenBurnsInit /\ rp = NoParse /\ ats = NoAts /\ ApiIdle

NextKenBurns == SampleFrame

SpecKenBurns == InitKenBurns /\ [][NextKenBurns]_vars

InitParser ==
    BuildIdle /\ kb = NoKenBurns /\ ParserInit /\ ats = NoAts /\ ApiIdle

NextParser == parse_resume

SpecParser == InitParser /\ [][NextParser]_vars

InitAts == BuildIdle /\ kb = NoKenBurns /\ rp = NoParse /\ AtsInit /\ ApiIdle

NextAts == ScoreResume

SpecAts == InitAts /\ [][NextAts]_vars

InitApplications == ToolsIdle /\ ApiSeeded

NextApplications == create_application \/ bulk_apply \/ update_application

SpecApplications == InitApplications /\ [][NextApplications]_vars

NextConcurrent ==
    \/ ReceiveCreate
    \/ \E i \in 1..Len(reqs) : CreateChecks(i)
    \/ \E i \in 1..Len(reqs) : CreateInsert(i)

SpecConcurrent == InitApplications /\ [][NextConcurrent]_vars

InitUpload == ToolsIdle /\ ApiIdle

NextUpload == upload_resume

SpecUpload == InitUpload /\ [][NextUpload]_vars

NextJobs == scrape_jobs \/ delete_job \/ get_jobs

SpecJobs == InitUpload /\ [][NextJobs]_vars

InitOwnership == ToolsIdle /\ ApiShared

NextOwnership ==
    \/ get_resume
    \/ update_resume
    \/ delete_resume
    \/ reparse_resume
    \/ get_application
    \/ update_application
    \/ delete_application

SpecOwnership == InitOwnership /\ [][NextOwnership]_vars


(* ------------------------------ properties ---------------------------- *)

StageOrder == <<"visual", "audio", "mux", "encode">>

IsPrefix(s, t) == Len(s) <= Len(t) /\ s = SubSeq(t, 1, Len(s))

SetMax(S) == CHOOSE m \in S : \A x \in S : x <= m

\* The scenes whose image resolved.
Resolved == {video_clips[k].scene : k \in 1..Len(video_clips)}

LayersOf(kind) == {k \in 1..Len(audio_clips) : audio_clips[k].kind = kind}

\* C1 (as claimed): on every exit path of build() on which media has been
\* loaded, the composed video and, when one exists, the mixed audio have
\* been closed before the process terminates.
C1_ClosedOnEveryExit ==
    (pc = "done" /\ videoBuilt) =>
        /\ videoClosed >= 1
        /\ audioBuilt => audioClosed >= 1

\* C2: if no scene's image resolves, build() ends with exit status 1 and
\* write_videofile is never invoked.
C2_NoSceneNoEncode ==
    (pc # "timeline" /\ video_clips = <<>>) =>
        /\ pc = "done"
        /\ exitStatus = 1
        /\ encodeCalls = 0
        /\ stages = <<>>
        /\ outputFile = "absent"

C2_Witness ==
    /\ pc = "done"
    /\ Len(scenes) = MaxScenes
    /\ video_clips = <<>>
    /\ exitStatus = 1

\* C3 (as claimed): a missing or undecodable image, narration, ambience or
\* effect never interrupts the pipeline and never changes the exit status:
\* a run without a fatal library, directory or encoder failure goes through
\* audio, mux and encode and exits 0.
C3_MissingAssetNeverFatal ==
    (pc = "done" /\ failure = "none" /\ scenes # <<>>) =>
        /\ stages = StageOrder
        /\ exitStatus = 0

\* C3 (amended): as long as at least one scene's image resolves, missing or
\* undecodable assets neither interrupt the pipeline nor change the exit
\* status; the status is 1 exactly when no image resolved or a fatal
\* failure (library exception, makedirs, encoder) occurred.
C3_RecoverableNotFatal ==
    pc = "done" =>
        /\ (video_clips # <<>> /\ failure = "none") =>
               (stages = StageOrder /\ exitStatus = 0)
        /\ (video_clips # <<>> /\ failure \in {"none", "makedirs", "encoder"}) =>
               IsPrefix(<<"visual", "audio", "mux">>, stages)
        /\ exitStatus = (IF video_clips = <<>> \/ failure # "none" THEN 1 ELSE 0)

C3_Witness ==
    /\ pc = "done"
    /\ exitStatus = 0
    /\ stages = StageOrder
    /\ Len(video_clips) < Len(scenes)
    /\ SfxSlots(scenes) # {}
    /\ audio_clips = <<>>

\* C4: when write_videofile fails, build() closes the composed video and,
\* when one exists, the mixed audio, and exits with status 1; after a
\* successful encode the same closes happen, each exactly once.
C4_EncodeCleanup ==
    (pc = "done" /\ encodeCalls >= 1) =>
        /\ videoClosed = 1
        /\ audioClosed = (IF audioBuilt THEN 1 ELSE 0)
        /\ failure \in {"none", "encoder"}
        /\ exitStatus = (IF failure = "encoder" THEN 1 ELSE 0)

C4_Witness ==
    /\ pc = "done"
    /\ failure = "encoder"
    /\ audioBuilt
    /\ videoClosed = 1
    /\ audioClosed = 1
    /\ exitStatus = 1

\* C5 (as claimed): after a fatal failure of build() no partial output file
\* is left at the output path.
C5_NoPartialOutput ==
    (pc = "done" /\ exitStatus = 1) => outputFile # "partial"

\* C6: the stages occur in the order visual, audio, mux, encode; the
\* encoder is invoked at most once; audio is composed only once the video
\* duration has been computed from all resolved clips.
C6_StageOrder ==
    /\ IsPrefix(stages, StageOrder)
    /\ encodeCalls <= 1
    /\ encodeCalls = 1 <=> (Len(stages) = 4)
    /\ Len(stages) >= 1 <=> videoBuilt
    /\ Len(stages) < 2 => ~audioBuilt
    /\ Len(stages) < 3 => ~muxed
    /\ Len(stages) >= 2 =>
           /\ videoDur = CompositeDuration(video_clips)
           /\ \A k \in LayersOf("ambience") : audio_clips[k].dur = videoDur

C6_Witness ==
    /\ pc = "done"
    /\ stages = StageOrder
    /\ encodeCalls = 1
    /\ muxed
    /\ LayersOf("ambience") # {}

\* C7 (as claimed): the mixed track of _compose_audio(video_duration) is
\* clipped to [0, video_duration]: no layer lies outside it and the mixed
\* track's duration equals video_duration.
C7_MixClipped ==
    audioBuilt =>
        /\ audioDur = videoDur
        /\ \A k \in 1..Len(audio_clips) :
               /\ audio_clips[k].start >= 0
               /\ audio_clips[k].start + audio_clips[k].dur <= videoDur

AtLeastOne(z) == z.n >= z.d

CropContained ==
    /\ 0 <= kb.crop_x
    /\ kb.crop_x + kb.w <= kb.new_w
    /\ 0 <= kb.crop_y
    /\ kb.crop_y + kb.h <= kb.new_h

LayersOfSlot(sl) ==
    {k \in LayersOf("sfx") :
        audio_clips[k].scene = sl[1] /\ audio_clips[k].entry = sl[2]}

\* The absolute time the configuration gives sfx entry sl.
SlotTime(sl) == scenes[sl[1]].start + scenes[sl[1]].sfx[sl[2]].offset

\* C11: every loaded effect sits in the mixed track at start_time + offset
\* of its own scene and entry, whatever the other scenes and the order of
\* the entries.
C11_EffectPlacement ==
    /\ \A k \in LayersOf("sfx") :
           audio_clips[k].start =
               SlotTime(<<audio_clips[k].scene, audio_clips[k].entry>>)
    /\ Len(stages) >= 2 =>
           \A sl \in loaded.sfx :
               \E k \in LayersOfSlot(sl) : audio_clips[k].start = SlotTime(sl)

C11_Witness ==
    /\ audioBuilt
    /\ Len(scenes) = MaxScenes
    /\ \E k1, k2 \in LayersOf("sfx") :
           /\ k1 < k2
           /\ audio_clips[k1].scene = audio_clips[k2].scene
           /\ audio_clips[k1].scene > 1
           /\ scenes[audio_clips[k1].scene].start > 0
           /\ audio_clips[k1].start > audio_clips[k2].start

\* C12: the progress zoom_pan uses for a frame is elapsed time over clip
\* duration and lies in [0, 1]; it is 0 for a clip of duration 0.
C12_ProgressInUnitInterval ==
    kb.sampled =>
        /\ kb.pd > 0
        /\ 0 <= kb.pn
        /\ kb.pn <= kb.pd
        /\ kb.d > 0 => kb.pn * kb.d = kb.t * kb.pd
        /\ kb.d = 0 => kb.pn = 0

C12_Witness ==
    /\ kb.sampled
    /\ kb.d = MaxKbDur
    /\ 0 < kb.pn
    /\ kb.pn < kb.pd

\* C13: with zoom_start = 1.0 and pan = (0, 0) the rectangle at progress 0
\* is the identity crop: the scaled frame has the frame's size and the crop
\* origin is (0, 0).
C13_IdentityAtStart ==
    (kb.sampled /\ kb.pn = 0 /\ kb.zs.n = kb.zs.d /\ kb.px = 0 /\ kb.py = 0) =>
        /\ kb.new_w = kb.w
        /\ kb.new_h = kb.h
        /\ kb.crop_x = 0
        /\ kb.crop_y = 0

C13_Witness ==
    /\ kb.sampled
    /\ kb.pn = 0
    /\ kb.d > 0
    /\ kb.zs.n = kb.zs.d
    /\ kb.ze.n > kb.ze.d
    /\ kb.px = 0
    /\ kb.py = 0
    /\ kb.new_w = kb.w
    /\ kb.crop_x = 0

\* The two-scene timelines of the claim: scenes i and j are the ones whose
\* image resolved, and j starts where i ends.
Adjacent(i, j) ==
    /\ i # j
    /\ loaded.image = {i, j}
    /\ scenes[i].end = scenes[j].start

ClipOf(i) == CHOOSE k \in 1..Len(video_clips) : video_clips[k].scene = i

C16_LaterListedOnTop ==
    videoBuilt =>
        /\ \A k1, k2 \in 1..Len(video_clips) :
               k1 < k2 => video_clips[k1].scene < video_clips[k2].scene
        /\ \A t \in 0..videoDur :
               LET ps == playing_clips(video_clips, t)
               IN  ps # {} =>
                       video_clips[TopClip(video_clips, t)].scene =
                           SetMax({video_clips[k].scene : k \in ps})

C16_Witness ==
    /\ videoBuilt
    /\ \E t \in 0..videoDur :
           /\ Cardinality(playing_clips(video_clips, t)) = 2
           /\ video_clips[TopClip(video_clips, t)].scene = Len(scenes)

\* C17 (as claimed): audio composition is never fatal: once the video is
\* built the run goes on to the mux; with nothing loaded there is no audio
\* and the video is encoded silent, otherwise the mix holds exactly the
\* layers that loaded.
C17_AudioNeverFatal ==
    (videoBuilt /\ pc # "audio") =>
        /\ failure # "audio"
        /\ Len(stages) >= 2
        /\ audioBuilt <=>
               (loaded.narration \/ loaded.ambience \/ loaded.sfx # {})
        /\ (LayersOf("narration") # {}) <=> loaded.narration
        /\ (LayersOf("ambience") # {}) <=> loaded.ambience
        /\ \A sl \in SfxSlots(scenes) :
               (LayersOfSlot(sl) # {}) <=> sl \in loaded.sfx
        /\ (pc = "done" /\ failure = "none") =>
               (encodeCalls = 1 /\ muxed = audioBuilt)

\* C18: an effect whose file does not load is skipped by itself: it has no
\* layer in the mix, every entry that loads has exactly one, and the build
\* still succeeds.
C18_MissingEffectSkipped ==
    /\ Len(stages) >= 2 =>
           \A sl \in SfxSlots(scenes) :
               Cardinality(LayersOfSlot(sl)) =
                   (IF sl \in loaded.sfx THEN 1 ELSE 0)
    /\ (pc = "done" /\ failure = "none" /\ video_clips # <<>>) =>
           (exitStatus = 0 /\ stages = StageOrder /\ outputFile = "complete")

C18_Witness ==
    /\ pc = "done"
    /\ exitStatus = 0
    /\ outputFile = "complete"
    /\ \E i \in 1..Len(scenes) :
           /\ Len(scenes[i].sfx) = 2
           /\ scenes[i].start + scenes[i].sfx[1].offset = MaxT
           /\ <<i, 1>> \notin loaded.sfx
           /\ LayersOfSlot(<<i, 1>>) = {}
           /\ <<i, 2>> \in loaded.sfx
           /\ LayersOfSlot(<<i, 2>>) # {}

\* C19: the visual timeline holds one clip per scene whose image resolved,
\* in scene order, none for the others; each clip starts at its scene's
\* start_time and lasts end_time - start_time.
C19_OneClipPerResolvedScene ==
    pc # "timeline" =>
        /\ Len(video_clips) = Cardinality(loaded.image)
        /\ \A k \in 1..Len(video_clips) :
               LET c == video_clips[k]
               IN  /\ c.scene \in loaded.image
                   /\ c.start = scenes[c.scene].start
                   /\ c.duration = scenes[c.scene].end - scenes[c.scene].start
        /\ \A k1, k2 \in 1..Len(video_clips) :
               k1 < k2 => video_clips[k1].scene < video_clips[k2].scene

C19_Witness ==
    /\ videoBuilt
    /\ Len(scenes) = MaxScenes
    /\ loaded.image = {MaxScenes}
    /\ Len(video_clips) = 1
    /\ video_clips[1].start > 0
    /\ video_clips[1].duration > 1

\* C20 (as claimed): parse_resume with a file type other than pdf or docx
\* raises ValueError "Unsupported file type", whether or not the path
\* exists.
C20_UnsupportedTypeValueError ==
    (rp.phase # "called" /\ Lower(rp.file_type) \notin {"pdf", "docx"}) =>
        /\ rp.phase = "raised"
        /\ rp.error = "ValueError: Unsupported file type"

\* C21: parse_resume on a path that does not exist raises FileNotFoundError
\* for the supported types pdf and docx (in any letter case), and no text
\* extraction is attempted.
C21_MissingFileNotFound ==
    (rp.phase # "called" /\ Lower(rp.file_type) \in {"pdf", "docx"}
        /\ ~rp.file.exists)
        => /\ rp.phase = "raised"
           /\ rp.error = "FileNotFoundError"
           /\ rp.extractCalls = 0

C21_Witness ==
    /\ rp.phase = "raised"
    /\ rp.file_type = "DOCX"
    /\ ~rp.file.exists
    /\ rp.error = "FileNotFoundError"

\* C22: the ATS score lies in [0, 100]; it is below 80 when name, email and
\* phone are all absent, at most 30 when the name is the only thing present,
\* and at least 70 when all three contact fields and a summary are present
\* with at least 5 skills, 2 experience entries and 1 education entry.
C22_AtsScoreRanges ==
    ats.phase = "returned" =>
        LET d == ats.parsed_data IN
        /\ 0 <= ats.score2 /\ ats.score2 <= 200
        /\ (~d.name /\ ~d.email /\ ~d.phone) => ats.score2 < 160
        /\ (d.name /\ ~d.email /\ ~d.phone /\ ~d.summary /\ d.skills = 0
                /\ d.experience = 0 /\ d.education = 0) => ats.score2 <= 60
        /\ (d.name /\ d.email /\ d.phone /\ d.summary /\ d.skills >= 5
                /\ d.experience >= 2 /\ d.education >= 1) => ats.score2 >= 140

C22_Witness ==
    /\ ats.phase = "returned"
    /\ ats.parsed_data = [name |-> TRUE, email |-> TRUE, phone |-> TRUE,
                          summary |-> TRUE, skills |-> 5, experience |-> 2,
                          education |-> 1]
    /\ ats.score2 = 147

\* C23: the Application table holds at most one row per (user_id, job_id)
\* after any sequence of create_application and bulk_apply requests, a
\* job id listed twice in one bulk_apply included.
C23_OneApplicationPerJob ==
    \A a, b \in applications :
        (a.user_id = b.user_id /\ a.job_id = b.job_id) => a.id = b.id

\* C24: create_application requests running concurrently for the same
\* (user_id, job_id) leave at most one Application row for the pair.
C24_OneRowUnderConcurrency ==
    \A user_id \in Users, job_id \in 1..MaxJobs :
        Cardinality(ApplicationsFor(applications, user_id, job_id)) <= 1

\* C25: the status of every Application row is one of applied, viewed,
\* interview, rejected, offer, whatever update_application was sent.
C25_StatusAllowed == \A a \in applications : a.status \in Statuses

\* C29: a bulk_apply that returns counts every requested job id exactly
\* once (created + skipped + errors = total_requested) and adds exactly
\* `created` rows; for a resume that is not the user's it answers 404 and
\* adds no row.
C29_BulkApplyAccounting ==
    [][resp'.op = "bulk_apply" =>
         /\ resp'.code = 200 =>
               /\ resp'.created + resp'.skipped + resp'.errors = resp'.total
               /\ applications \subseteq applications'
               /\ Cardinality(applications' \ applications) = resp'.created
         /\ ResumeOf(resp'.user_id, resp'.target) = {} =>
               resp'.code = 404 /\ applications' = applications
         /\ resp'.code \in {200, 404}]_vars

C29_Witness ==
    /\ resp.op = "bulk_apply"
    /\ resp.code = 200
    /\ resp.created = 1
    /\ resp.skipped = 1
    /\ resp.total = 2

\* C28: effects are loaded for every scene of the configuration: a scene
\* whose image was dropped still has each of its resolvable sfx entries in
\* the mixed track, once, at start_time + offset.
C28_DroppedSceneKeepsEffects ==
    Len(stages) >= 2 =>
        \A sl \in loaded.sfx :
            sl[1] \notin loaded.image =>
                /\ Cardinality(LayersOfSlot(sl)) = 1
                /\ \A k \in LayersOfSlot(sl) :
                       audio_clips[k].start = SlotTime(sl)

C28_Witness ==
    /\ audioBuilt
    /\ Len(scenes) = 2
    /\ loaded.image = {2}
    /\ <<1, 1>> \in loaded.sfx
    /\ \E k \in LayersOfSlot(<<1, 1>>) :
           audio_clips[k].start = scenes[1].start + scenes[1].sfx[1].offset

\* C26: when parsing fails during upload_resume the response is 422, the
\* file just written is gone, no Resume row is created, and the stored
\* files and the Resume table are what they were before the request.
C26_FailedUploadLeavesNoTrace ==
    [][(resp'.op = "upload_resume" /\ resp'.code = 422) =>
           uploads' = uploads /\ resumes' = resumes]_vars

\* C27: delete_job removes no Job row and only clears is_active; no row is
\* ever removed; a get_jobs result holds active jobs only, whatever its
\* filter, sort and page arguments; and an inactive job becomes active
\* again only in a scrape_jobs whose postings include its key.
C27_SoftDelete ==
    [][/\ Len(jobs') >= Len(jobs)
       /\ \A j \in 1..Len(jobs) :
              /\ jobs'[j].key = jobs[j].key
              /\ (~jobs[j].is_active /\ jobs'[j].is_active) =>
                     /\ resp'.op = "scrape_jobs"
                     /\ \E i \in 1..Len(resp'.result) :
                            resp'.result[i] = jobs[j].key
       /\ resp'.op = "delete_job" =>
              /\ Len(jobs') = Len(jobs)
              /\ \A j \in 1..Len(jobs) :
                     jobs'[j] = [jobs[j] EXCEPT
                                   !.is_active = @ /\ j # resp'.target]
       /\ resp'.op = "get_jobs" =>
              \A i \in 1..Len(resp'.result) :
                  jobs'[resp'.result[i]].is_active]_vars

C27_Witness ==
    /\ resp.op = "get_jobs"
    /\ Len(jobs) = 2
    /\ ~jobs[1].is_active
    /\ resp.result = <<2>>

ResumeOps == {"get_resume", "update_resume", "delete_resume", "reparse_resume"}

ApplicationOps == {"get_application", "update_application", "delete_application"}

\* The owners of the row a response's request named, before the request.
NamedOwners ==
    IF resp'.op \in ResumeOps
    THEN {r.user_id : r \in {x \in resumes : x.id = resp'.target}}
    ELSE {a.user_id : a \in {x \in applications : x.id = resp'.target}}

\* C30: a resume or application endpoint called with user_id = u leaves
\* every row owned by another user unchanged and returns none of them; a
\* call that names another user's row answers 404 and changes nothing.
\* (A payload that fails validation is answered 422 without the endpoint
\* being called.)
C30_OtherUsersRowsUntouched ==
    [][(/\ resp'.op \in ResumeOps \cup ApplicationOps
        /\ ~(resp'.op = "update_application" /\ resp'.code = 422)) =>
         /\ \A r \in resumes : r.user_id # resp'.user_id => r \in resumes'
         /\ \A a \in applications :
                a.user_id # resp'.user_id => a \in applications'
         /\ \A i \in 1..Len(resp'.result) :
                resp'.user_id \in NamedOwners /\ resp'.result[i] = resp'.target
         /\ (NamedOwners # {} /\ resp'.user_id \notin NamedOwners) =>
                /\ resp'.code = 404
                /\ resp'.result = <<>>
                /\ resumes' = resumes
                /\ applications' = applications
                /\ uploads' = uploads]_vars

C30_Witness ==
    /\ resp.op = "update_resume"
    /\ resp.user_id = 1
    /\ resp.target = 2
    /\ resp.code = 404
    /\ \E r \in resumes : r.id = 2 /\ r.user_id = 2 /\ r.title = "cv"

====
